---- MODULE Spec2Model ----
(***************************************************************************)
(* Leave-balance bookkeeping and payroll-period lifecycle of the workforce *)
(* application (src/workforce/viewsets.py, views.py, admin.py, models.py). *)
(*                                                                         *)
(* Day amounts are DecimalFields in the source; they are modelled as       *)
(* integers (whole days).  Timestamps are modelled as "null" / "set".      *)
(***************************************************************************)
EXTENDS Integers, FiniteSets, Sequences, TLC

\* ------------------------------------------------------------------ bounds
MaxDays == 2         \* working_days of an application, and opening_balance of a
                     \* stored balance row, range up to MaxDays; an approval or
                     \* rejection is enabled while taken_days <= MaxDays and
                     \* pending_days >= -MaxDays
MaxOther == 1        \* carried_forward + encashed + forfeited of a stored row
AccrualRate == 1     \* leave_type.accrual_rate of the modelled leave type;
                     \* accrue_monthly is enabled while accrued_days <= AccrualRate
MaxInvocations == 2  \* accrue_monthly requests started in the accrual runs
MaxAmount == 2       \* amount of a payroll detail line, and an aggregate typed
                     \* into the admin form
MaxLines == 2        \* detail lines of the stored payroll calculation

\* ------------------------------------------------------------------- data
AppIds == {"a1", "a2"}

LeaveStatus ==
    {"draft", "submitted", "pending_approval", "approved", "rejected",
     "cancelled", "on_leave", "completed"}

\* request.data.get('reason', '') / request.POST.get('reason'): "absent" is a
\* request without the parameter.
ReasonInputs == {"r1", "absent"}

Methods == {"GET", "POST"}

VARIABLES
    apps,       \* hr_leave_application rows, by id
    balance,    \* the hr_employee_leave_balance row of the applications' key
    resp,       \* the answer to the last request handled (status / message)
    periods,    \* payroll_period rows, by id
    req,        \* concurrent requests: position and in-memory model instances
    accrual,    \* leave-balance table and accrue_monthly requests
    slips,      \* payroll calculations, payslips and the last batch_generate_payslips answer
    detail,     \* a payroll calculation, its detail lines and the last breakdown
    store,      \* rows of the four tables served by generic endpoints, and their employee
    auth,       \* user accounts, browser sessions and the last accounts answer
    addr,       \* an employee's address rows and the workers saving them
    report,     \* the last generate_report request and its answer
    overtime,   \* overtime request rows and the approve / reject requests in flight
    attendance, \* attendance records, work schedules and the clock_in requests in flight
    clock       \* today's attendance record of one employee and the last clock_out answer

vars ==
    <<apps, balance, resp, periods, req,
      accrual, slips, detail, store, auth,
      addr, report, overtime, attendance, clock>>

\* The leave and payroll rows, and the variables of the other subsystems.
coreVars == <<apps, balance, resp, periods, req>>
extVars ==
    <<accrual, slips, detail, store, auth,
      addr, report, overtime, attendance, clock>>

\* What the sequential leave handlers, and the payroll handlers, leave alone.
leaveFrame == <<periods, req, extVars>>
payrollFrame == <<apps, balance, req, extVars>>

\* A handler of subsystem v leaves every other subsystem alone.
OnlyChanges(v) ==
    /\ UNCHANGED coreVars
    /\ IF v = "accrual" THEN TRUE ELSE UNCHANGED accrual
    /\ IF v = "slips" THEN TRUE ELSE UNCHANGED slips
    /\ IF v = "detail" THEN TRUE ELSE UNCHANGED detail
    /\ IF v = "store" THEN TRUE ELSE UNCHANGED store
    /\ IF v = "auth" THEN TRUE ELSE UNCHANGED auth
    /\ IF v = "addr" THEN TRUE ELSE UNCHANGED addr
    /\ IF v = "report" THEN TRUE ELSE UNCHANGED report
    /\ IF v = "overtime" THEN TRUE ELSE UNCHANGED overtime
    /\ IF v = "attendance" THEN TRUE ELSE UNCHANGED attendance
    /\ IF v = "clock" THEN TRUE ELSE UNCHANGED clock

\* Every subsystem but v is idle: no row, no request.
IdleExcept(v) ==
    /\ v # "accrual" => accrual = "idle"
    /\ v # "slips" => slips = "idle"
    /\ v # "detail" => detail = "idle"
    /\ v # "store" => store = "idle"
    /\ v # "auth" => auth = "idle"
    /\ v # "addr" => addr = "idle"
    /\ v # "report" => report = "idle"
    /\ v # "overtime" => overtime = "idle"
    /\ v # "attendance" => attendance = "idle"
    /\ v # "clock" => clock = "idle"

\* A LeaveApplication row; exists = FALSE means no row with that id.
NoApp ==
    [exists |-> FALSE, status |-> "draft", working_days |-> 1,
     submitted_date |-> "null", rejection_reason |-> ""]

NewApp(d) ==
    [exists |-> TRUE, status |-> "draft", working_days |-> d,
     submitted_date |-> "null", rejection_reason |-> ""]

\* An EmployeeLeaveBalance row; present = FALSE means filter(...).first() is None.
NoBalance ==
    [present |-> FALSE, opening_balance |-> 0, accrued_days |-> 0,
     carried_forward_days |-> 0, taken_days |-> 0, pending_days |-> 0,
     encashed_days |-> 0, forfeited_days |-> 0, closing_balance |-> 0,
     last_accrual_date |-> "null"]

\* The balance the data model expects (spec.md section 3).
ExpectedClosing(b) ==
    b.opening_balance + b.accrued_days + b.carried_forward_days
        - b.taken_days - b.encashed_days - b.forfeited_days

StoredBalance(o, c, e, f) ==
    [present |-> TRUE, opening_balance |-> o, accrued_days |-> 0,
     carried_forward_days |-> c, taken_days |-> 0, pending_days |-> 0,
     encashed_days |-> e, forfeited_days |-> f,
     closing_balance |-> o + c - e - f,
     last_accrual_date |-> "null"]

\* --------------------------------------------------- leave: pure helpers

\* Variant: the pending days are not subtracted.
Available_IgnoresPending(b) == b.closing_balance

\* viewsets.py:435  available = balance.closing_balance - balance.pending_days
Available(b) == b.closing_balance - b.pending_days

\* Variants: the comparison off by one, in either direction.
InsufficientBalance_OffByOne(b, app) ==
    b.present /\ Available(b) < app.working_days - 1

InsufficientBalance_Strict(b, app) ==
    b.present /\ Available(b) <= app.working_days

\* viewsets.py:434-436  if balance: ... if available < leave_app.working_days
InsufficientBalance(b, app) ==
    b.present /\ Available(b) < app.working_days

\* viewsets.py:442-444
SubmittedApp(app) ==
    [app EXCEPT !.status = "submitted", !.submitted_date = "set"]

\* viewsets.py:447-449
AddPending(b, d) ==
    IF b.present THEN [b EXCEPT !.pending_days = @ + d] ELSE b

\* viewsets.py:459, 477 and views.py:412
Decidable(app) == app.status \in {"submitted", "pending_approval"}

\* ----------------------------------------------------- leave: handlers

\* LeaveApplicationViewSet.submit
ApiSubmit(a) ==
    /\ UNCHANGED leaveFrame
    /\ LET leave_app == apps[a] IN
       IF ~leave_app.exists
       THEN resp' = "not_found" /\ UNCHANGED <<apps, balance>>
       ELSE IF leave_app.status # "draft"
       THEN resp' = "submit_not_draft" /\ UNCHANGED <<apps, balance>>
       ELSE IF InsufficientBalance(balance, leave_app)
       THEN resp' = "insufficient_balance" /\ UNCHANGED <<apps, balance>>
       ELSE /\ apps' = [apps EXCEPT ![a] = SubmittedApp(leave_app)]
            /\ balance' = AddPending(balance, leave_app.working_days)
            /\ resp' = "ok"

\* viewsets.py:465-467 and views.py:416-418
ApprovedApp(app) == [app EXCEPT !.status = "approved"]

\* views.py:430-433 and viewsets.py:542-547: the closing balance as the code
\* recomputes it.
ClosingBalance(b) ==
    b.opening_balance + b.accrued_days + b.carried_forward_days - b.taken_days

\* Variant: the pending days are not released.
ApproveBalance_KeepsPending(b, d) ==
    IF b.present
    THEN LET t == [b EXCEPT !.taken_days = @ + d]
         IN  [t EXCEPT !.closing_balance = ClosingBalance(t)]
    ELSE b

\* views.py:427-434
ApproveBalance(b, d) ==
    IF b.present
    THEN LET t == [b EXCEPT !.taken_days = @ + d, !.pending_days = @ - d]
         IN  [t EXCEPT !.closing_balance = ClosingBalance(t)]
    ELSE b

\* viewsets.py:483-486 and views.py:448-451
RejectedApp(app, reason) ==
    [app EXCEPT !.status = "rejected", !.rejection_reason = reason]

\* Variant: the rejected days are also booked as taken.
RejectBalance_BooksTaken(b, d) ==
    IF b.present
    THEN [b EXCEPT !.pending_days = @ - d, !.taken_days = @ + d]
    ELSE b

\* viewsets.py:495-497 and views.py:460-462
RejectBalance(b, d) ==
    IF b.present THEN [b EXCEPT !.pending_days = @ - d] ELSE b

\* LeaveApplicationViewSet.approve: the balance is not touched.
ApiApprove(a) ==
    /\ UNCHANGED leaveFrame
    /\ LET leave_app == apps[a] IN
       IF ~leave_app.exists
       THEN resp' = "not_found" /\ UNCHANGED <<apps, balance>>
       ELSE IF ~Decidable(leave_app)
       THEN resp' = "approve_invalid_status" /\ UNCHANGED <<apps, balance>>
       ELSE /\ apps' = [apps EXCEPT ![a] = ApprovedApp(leave_app)]
            /\ resp' = "ok"
            /\ UNCHANGED balance

\* LeaveApplicationViewSet.reject; request.data.get('reason', '')
ApiReject(a, r) ==
    /\ UNCHANGED leaveFrame
    /\ LET leave_app == apps[a]
           reason == IF r = "absent" THEN "" ELSE r
       IN
       IF ~leave_app.exists
       THEN resp' = "not_found" /\ UNCHANGED <<apps, balance>>
       ELSE IF ~Decidable(leave_app)
       THEN resp' = "reject_invalid_status" /\ UNCHANGED <<apps, balance>>
       ELSE /\ balance.present => balance.pending_days - leave_app.working_days >= -MaxDays
            /\ apps' = [apps EXCEPT ![a] = RejectedApp(leave_app, reason)]
            /\ balance' = RejectBalance(balance, leave_app.working_days)
            /\ resp' = "ok"

\* views.leave_application_approve
HtmlApprove(a) ==
    /\ UNCHANGED leaveFrame
    /\ LET application == apps[a] IN
       IF ~application.exists
       THEN resp' = "not_found" /\ UNCHANGED <<apps, balance>>
       ELSE IF ~Decidable(application)
       THEN resp' = "html_cannot_approve" /\ UNCHANGED <<apps, balance>>
       ELSE /\ balance.present => balance.taken_days + application.working_days <= MaxDays
            /\ balance.present => balance.pending_days - application.working_days >= -MaxDays
            /\ apps' = [apps EXCEPT ![a] = ApprovedApp(application)]
            /\ balance' = ApproveBalance(balance, application.working_days)
            /\ resp' = "html_approved"

\* views.leave_application_reject: no status check; a GET renders the form; a
\* POST without 'reason' assigns None to the NOT NULL column rejection_reason,
\* so application.save() raises and nothing is written.
HtmlReject(a, m, r) ==
    /\ UNCHANGED leaveFrame
    /\ LET application == apps[a] IN
       IF ~application.exists
       THEN resp' = "not_found" /\ UNCHANGED <<apps, balance>>
       ELSE IF m # "POST"
       THEN resp' = "html_reject_form" /\ UNCHANGED <<apps, balance>>
       ELSE IF r = "absent"
       THEN resp' = "server_error" /\ UNCHANGED <<apps, balance>>
       ELSE /\ balance.present => balance.pending_days - application.working_days >= -MaxDays
            /\ apps' = [apps EXCEPT ![a] = RejectedApp(application, r)]
            /\ balance' = RejectBalance(balance, application.working_days)
            /\ resp' = "html_rejected"

\* Variant: the rate is added twice.
AccruedBalance_Twice(b) ==
    LET row == IF b.present THEN b ELSE [NoBalance EXCEPT !.present = TRUE]
        t == [row EXCEPT !.accrued_days = @ + AccrualRate + AccrualRate]
    IN  [t EXCEPT !.closing_balance = ClosingBalance(t),
                  !.last_accrual_date = "set"]

\* EmployeeLeaveBalanceViewSet.accrue_monthly, for the one (active employee,
\* active leave type, current year) key the model follows: get_or_create, then
\* the accrual and the recomputation of closing_balance.
AccruedBalance(b) ==
    LET row == IF b.present THEN b ELSE [NoBalance EXCEPT !.present = TRUE]
        t == [row EXCEPT !.accrued_days = @ + AccrualRate]
    IN  [t EXCEPT !.closing_balance = ClosingBalance(t),
                  !.last_accrual_date = "set"]

AccrueMonthly ==
    /\ balance.accrued_days + AccrualRate <= AccrualRate
    /\ balance' = AccruedBalance(balance)
    /\ resp' = "accrued"
    /\ UNCHANGED apps
    /\ UNCHANGED leaveFrame

\* ModelViewSet.partial_update of LeaveApplicationViewSet with {"status": s}:
\* the serializer exposes every field ('__all__').
ApiUpdate(a, s) ==
    /\ UNCHANGED leaveFrame
    /\ IF ~apps[a].exists
       THEN resp' = "not_found" /\ UNCHANGED <<apps, balance>>
       ELSE /\ apps' = [apps EXCEPT ![a].status = s]
            /\ resp' = "updated"
            /\ UNCHANGED balance

LeaveInit ==
    /\ \E d \in 1..MaxDays :
           apps = [a \in AppIds |-> IF a = "a1" THEN NewApp(d) ELSE NoApp]
    /\ \/ balance = NoBalance
       \/ \E o \in 0..MaxDays, c, e, f \in 0..MaxOther :
              /\ c + e + f <= MaxOther
              /\ o + c - e - f >= 0
              /\ balance = StoredBalance(o, c, e, f)
    /\ resp = "none"

LeaveNext ==
    \/ \E a \in AppIds : ApiSubmit(a)
    \/ \E a \in AppIds : ApiApprove(a)
    \/ \E a \in AppIds, r \in ReasonInputs : ApiReject(a, r)
    \/ \E a \in AppIds : HtmlApprove(a)
    \/ \E a \in AppIds, m \in Methods, r \in ReasonInputs : HtmlReject(a, m, r)
    \/ AccrueMonthly
    \/ \E a \in AppIds, s \in LeaveStatus : ApiUpdate(a, s)

\* ------------------------------------------------------ payroll periods

PeriodIds == {"p1", "p2"}
Users == {"u1", "u2"}

\* models.py:2748-2754  PayrollPeriod.Status
PeriodStatus ==
    {"open", "processing", "calculated", "approved", "paid", "closed"}

\* Position of a status in the lifecycle open -> ... -> closed.
StatusRank(s) ==
    CASE s = "open" -> 0
      [] s = "processing" -> 1
      [] s = "calculated" -> 2
      [] s = "approved" -> 3
      [] s = "paid" -> 4
      [] s = "closed" -> 5

\* models.py:2763-2801: the defaults of a new PayrollPeriod.
NewPeriod ==
    [status |-> "open", locked |-> FALSE, processing_started_at |-> "null",
     approved_by |-> "null", approved_date |-> "null"]

\* Variant: a calculated period may be processed again.
Processable_AlsoCalculated(period) ==
    period.status \in {"open", "processing", "calculated"}

\* viewsets.py:577
Processable(period) == period.status \in {"open", "processing"}

\* viewsets.py:599
Approvable(period) == period.status = "calculated"

\* PayrollPeriodViewSet.process
PeriodProcess(p) ==
    /\ UNCHANGED payrollFrame
    /\ LET period == periods[p] IN
       IF ~Processable(period)
       THEN resp' = "not_open_for_processing" /\ UNCHANGED periods
       ELSE /\ periods' = [periods EXCEPT ![p].status = "processing",
                                          ![p].processing_started_at = "set"]
            /\ resp' = "processing_started"

\* PayrollPeriodViewSet.approve, requested by user u
PeriodApprove(p, u) ==
    /\ UNCHANGED payrollFrame
    /\ LET period == periods[p] IN
       IF ~Approvable(period)
       THEN resp' = "must_be_calculated" /\ UNCHANGED periods
       ELSE /\ periods' = [periods EXCEPT ![p].status = "approved",
                                          ![p].approved_by = u,
                                          ![p].approved_date = "set"]
            /\ resp' = "ok"

\* ModelViewSet.partial_update of PayrollPeriodViewSet with {"status": s}
\* (serializer fields '__all__'); the admin change form edits the same field.
PeriodUpdate(p, s) ==
    /\ periods' = [periods EXCEPT ![p].status = s]
    /\ resp' = "updated"
    /\ UNCHANGED payrollFrame

\* PayrollPeriodAdmin.lock_periods on the queryset qs
LockPeriods(qs) ==
    /\ periods' = [p \in PeriodIds |->
                      IF p \in qs THEN [periods[p] EXCEPT !.locked = TRUE]
                      ELSE periods[p]]
    /\ resp' = "periods_locked"
    /\ UNCHANGED payrollFrame

\* PayrollPeriodAdmin.unlock_periods on the queryset qs
UnlockPeriods(qs) ==
    /\ periods' = [p \in PeriodIds |->
                      IF p \in qs THEN [periods[p] EXCEPT !.locked = FALSE]
                      ELSE periods[p]]
    /\ resp' = "periods_unlocked"
    /\ UNCHANGED payrollFrame

PayrollInit ==
    /\ periods = [p \in PeriodIds |-> NewPeriod]
    /\ resp = "none"

PayrollNext ==
    \/ \E p \in PeriodIds : PeriodProcess(p)
    \/ \E p \in PeriodIds, u \in Users : PeriodApprove(p, u)
    \/ \E p \in PeriodIds, s \in PeriodStatus : PeriodUpdate(p, s)
    \/ \E qs \in SUBSET PeriodIds : LockPeriods(qs)
    \/ \E qs \in SUBSET PeriodIds : UnlockPeriods(qs)

\* ---------------------------------------------- concurrent leave requests
\* Two requests are handled at the same time by two workers.  Every ORM call
\* (get_object, filter(...).first(), save) is one step on the shared rows; the
\* model instances leave_app / balance a handler holds are its own copies, and
\* save() writes the copy's fields back.

Requests == {"r1", "r2"}

IdleRequest ==
    [pc |-> "idle", kind |-> "none", app |-> "a1", leave_app |-> NoApp,
     bal |-> NoBalance, resp |-> "none"]

Finish(r, outcome) ==
    req' = [req EXCEPT ![r].pc = "done", ![r].resp = outcome]

\* viewsets.py:419-425  leave_app = self.get_object(); status check
SubmitGetObject(r, a) ==
    /\ req[r].pc = "idle"
    /\ LET leave_app == apps[a]
           started == [req[r] EXCEPT !.kind = "submit", !.app = a,
                                     !.leave_app = leave_app]
       IN  IF ~leave_app.exists
           THEN req' = [req EXCEPT ![r] =
                           [started EXCEPT !.pc = "done", !.resp = "not_found"]]
           ELSE IF leave_app.status # "draft"
           THEN req' = [req EXCEPT ![r] =
                           [started EXCEPT !.pc = "done", !.resp = "submit_not_draft"]]
           ELSE req' = [req EXCEPT ![r] = [started EXCEPT !.pc = "submit_check"]]
    /\ UNCHANGED <<apps, balance, resp, periods, extVars>>

\* viewsets.py:428-440  balance = ...first(); the sufficiency check
SubmitReadBalance(r) ==
    /\ req[r].pc = "submit_check"
    /\ IF InsufficientBalance(balance, req[r].leave_app)
       THEN req' = [req EXCEPT ![r].bal = balance, ![r].pc = "done",
                               ![r].resp = "insufficient_balance"]
       ELSE req' = [req EXCEPT ![r].bal = balance, ![r].pc = "submit_save_app"]
    /\ UNCHANGED <<apps, balance, resp, periods, extVars>>

\* viewsets.py:442-444  leave_app.save()
SubmitSaveApp(r) ==
    /\ req[r].pc = "submit_save_app"
    /\ apps' = [apps EXCEPT ![req[r].app] = SubmittedApp(req[r].leave_app)]
    /\ req' = [req EXCEPT ![r].leave_app = SubmittedApp(req[r].leave_app),
                          ![r].pc = "submit_save_balance"]
    /\ UNCHANGED <<balance, resp, periods, extVars>>

\* viewsets.py:447-452  balance.pending_days += ...; balance.save()
SubmitSaveBalance(r) ==
    /\ req[r].pc = "submit_save_balance"
    /\ balance' = IF req[r].bal.present
                  THEN AddPending(req[r].bal, req[r].leave_app.working_days)
                  ELSE balance
    /\ Finish(r, "ok")
    /\ UNCHANGED <<apps, resp, periods, extVars>>

\* views.py:410-414  get_object_or_404; status check
ApproveGetObject(r, a) ==
    /\ req[r].pc = "idle"
    /\ LET application == apps[a]
           started == [req[r] EXCEPT !.kind = "approve", !.app = a,
                                     !.leave_app = application]
       IN  IF ~application.exists
           THEN req' = [req EXCEPT ![r] =
                           [started EXCEPT !.pc = "done", !.resp = "not_found"]]
           ELSE IF ~Decidable(application)
           THEN req' = [req EXCEPT ![r] =
                           [started EXCEPT !.pc = "done", !.resp = "html_cannot_approve"]]
           ELSE req' = [req EXCEPT ![r] = [started EXCEPT !.pc = "approve_save_app"]]
    /\ UNCHANGED <<apps, balance, resp, periods, extVars>>

\* views.py:416-418  application.save()
ApproveSaveApp(r) ==
    /\ req[r].pc = "approve_save_app"
    /\ apps' = [apps EXCEPT ![req[r].app] = ApprovedApp(req[r].leave_app)]
    /\ req' = [req EXCEPT ![r].leave_app = ApprovedApp(req[r].leave_app),
                          ![r].pc = "approve_read_balance"]
    /\ UNCHANGED <<balance, resp, periods, extVars>>

\* views.py:421-427  balance = ...first(); if balance:
ApproveReadBalance(r) ==
    /\ req[r].pc = "approve_read_balance"
    /\ IF balance.present
       THEN req' = [req EXCEPT ![r].bal = balance, ![r].pc = "approve_save_balance"]
       ELSE req' = [req EXCEPT ![r].bal = balance, ![r].pc = "done", ![r].resp = "html_approved"]
    /\ UNCHANGED <<apps, balance, resp, periods, extVars>>

\* views.py:428-437  the balance update; balance.save()
ApproveSaveBalance(r) ==
    /\ req[r].pc = "approve_save_balance"
    /\ balance' = ApproveBalance(req[r].bal, req[r].leave_app.working_days)
    /\ Finish(r, "html_approved")
    /\ UNCHANGED <<apps, resp, periods, extVars>>

\* Rows as earlier requests left them: a2 is a draft; a1 is a draft, or was
\* submitted against the balance (its working_days are pending).
RaceInit ==
    /\ \E d1, d2 \in 1..MaxDays, o \in 0..MaxDays, c \in 0..MaxOther,
          s1 \in {"draft", "submitted"} :
           /\ s1 = "submitted" => o + c >= d1
           /\ apps = [a \in AppIds |->
                         IF a = "a2" THEN NewApp(d2)
                         ELSE IF s1 = "draft" THEN NewApp(d1)
                         ELSE SubmittedApp(NewApp(d1))]
           /\ balance = IF s1 = "draft" THEN StoredBalance(o, c, 0, 0)
                        ELSE AddPending(StoredBalance(o, c, 0, 0), d1)
    /\ req = [r \in Requests |-> IdleRequest]
    /\ resp = "none"
    /\ periods = [p \in PeriodIds |-> NewPeriod]
    /\ IdleExcept("none")

RaceNext ==
    \/ \E r \in Requests, a \in AppIds : SubmitGetObject(r, a)
    \/ \E r \in Requests : SubmitReadBalance(r)
    \/ \E r \in Requests : SubmitSaveApp(r)
    \/ \E r \in Requests : SubmitSaveBalance(r)
    \/ \E r \in Requests, a \in AppIds : ApproveGetObject(r, a)
    \/ \E r \in Requests : ApproveSaveApp(r)
    \/ \E r \in Requests : ApproveReadBalance(r)
    \/ \E r \in Requests : ApproveSaveBalance(r)

\* --------------------------------------------------------- specifications

\* Sequential leave requests: every handler runs to completion.
Init ==
    /\ LeaveInit
    /\ periods = [p \in PeriodIds |-> NewPeriod]
    /\ req = [r \in Requests |-> IdleRequest]
    /\ IdleExcept("none")

Next == LeaveNext

Spec == Init /\ [][Next]_vars

\* One application through the API actions submit and reject, and the
\* monthly accrual, which creates the balance row that is missing.
SubmitSpec ==
    Init /\ [][\/ \E a \in AppIds : ApiSubmit(a)
               \/ \E a \in AppIds, r \in ReasonInputs : ApiReject(a, r)
               \/ AccrueMonthly]_vars

\* The submit, approve and reject operations of both interfaces, one after
\* the other.
DecisionSpec ==
    Init /\ [][\/ \E a \in AppIds : ApiSubmit(a)
               \/ \E a \in AppIds : ApiApprove(a)
               \/ \E a \in AppIds, r \in ReasonInputs : ApiReject(a, r)
               \/ \E a \in AppIds : HtmlApprove(a)
               \/ \E a \in AppIds, m \in Methods, r \in ReasonInputs :
                      HtmlReject(a, m, r)]_vars

\* Concurrent leave requests.
RaceSpec == RaceInit /\ [][RaceNext]_vars

\* Payroll-period requests.
PayrollSpecInit ==
    /\ PayrollInit
    /\ apps = [a \in AppIds |-> NoApp]
    /\ balance = NoBalance
    /\ req = [r \in Requests |-> IdleRequest]
    /\ IdleExcept("none")

\* Period p1 receives process and approve requests only, period p2 also
\* updates of its status; every process and approve request is repeated for
\* as long as it changes anything.
ProgressNext ==
    \/ \E p \in PeriodIds : PeriodProcess(p)
    \/ \E p \in PeriodIds, u \in Users : PeriodApprove(p, u)
    \/ \E s \in PeriodStatus : PeriodUpdate("p2", s)

ProgressSpec ==
    /\ PayrollSpecInit
    /\ [][ProgressNext]_vars
    /\ \A p \in PeriodIds :
           /\ WF_vars(PeriodProcess(p))
           /\ WF_vars(\E u \in Users : PeriodApprove(p, u))

\* The leave and payroll rows while another subsystem is followed.
CoreIdle ==
    /\ apps = [a \in AppIds |-> NoApp]
    /\ balance = NoBalance
    /\ resp = "none"
    /\ periods = [p \in PeriodIds |-> NewPeriod]
    /\ req = [r \in Requests |-> IdleRequest]

PayrollSpec == PayrollSpecInit /\ [][PayrollNext]_vars

\* ------------------------------------------- leave balances: accrue_monthly

Employees == {"e1", "e2"}
LeaveTypes == {"lt1", "lt2"}
Years == {"last", "current"}

\* viewsets.py:528-529,533-534  the (employee, leave type) pairs in loop order.
AllPairs == <<<<"e1", "lt1">>, <<"e1", "lt2">>, <<"e2", "lt1">>, <<"e2", "lt2">>>>

\* An hr_employee_leave_balance row: its key columns and its day columns.
\* The table is a sequence; a row's position is its primary key.
BalanceRow(e, l, y) ==
    [employee |-> e, leave_type |-> l, year |-> y, bal |-> StoredBalance(0, 0, 0, 0)]

RowsOf(rows, e, l, y) ==
    {i \in 1..Len(rows) : /\ rows[i].employee = e
                          /\ rows[i].leave_type = l
                          /\ rows[i].year = y}

\* Variant: the table has no uniqueness constraint.
UniqueTogether_Off(rows, e, l, y) == TRUE

\* models.py:1301  unique_together = ['employee', 'leave_type', 'year']:
\* an INSERT is accepted only when no row has the key.
UniqueTogether(rows, e, l, y) == RowsOf(rows, e, l, y) = {}

IdleAccrue ==
    [pc |-> "idle", pairs |-> <<>>, i |-> 1, pk |-> 0,
     balance |-> NoBalance, accrued_count |-> 0]

\* The pair the request's loops are at.
AccruePair(k) == accrual.reqs[k].pairs[accrual.reqs[k].i]

\* viewsets.py:525-534  the year is read and the two filters are built; the
\* loops then run over the active employees and the active leave types.
AccrueStart(k) ==
    LET r == accrual.reqs[k]
        ps == SelectSeq(AllPairs, LAMBDA p : /\ p[1] \in accrual.active_employees
                                             /\ p[2] \in accrual.active_leave_types)
    IN  /\ r.pc \in {"idle", "done"}
        /\ accrual.invocations < MaxInvocations
        /\ accrual' = [accrual EXCEPT
                           !.invocations = @ + 1,
                           !.reqs[k] = [IdleAccrue EXCEPT
                                            !.pc = IF ps = <<>> THEN "done" ELSE "get",
                                            !.pairs = ps]]
        /\ OnlyChanges("accrual")

\* viewsets.py:535-539  get_or_create, its SELECT.
AccrueGet(k) ==
    LET r == accrual.reqs[k]
        p == AccruePair(k)
        found == RowsOf(accrual.rows, p[1], p[2], "current")
    IN  /\ r.pc = "get"
        /\ IF found # {}
           THEN LET pk == CHOOSE i \in found : \A j \in found : i <= j
                IN  accrual' = [accrual EXCEPT
                                    !.reqs[k].pc = "save",
                                    !.reqs[k].pk = pk,
                                    !.reqs[k].balance = accrual.rows[pk].bal]
           ELSE accrual' = [accrual EXCEPT !.reqs[k].pc = "create"]
        /\ OnlyChanges("accrual")

\* viewsets.py:535-539  get_or_create, its INSERT after the SELECT found no
\* row; on IntegrityError get_or_create reads the row another request inserted.
AccrueCreate(k) ==
    LET r == accrual.reqs[k]
        p == AccruePair(k)
        found == RowsOf(accrual.rows, p[1], p[2], "current")
    IN  /\ r.pc = "create"
        /\ IF UniqueTogether(accrual.rows, p[1], p[2], "current")
           THEN accrual' = [accrual EXCEPT
                                !.rows = Append(@, BalanceRow(p[1], p[2], "current")),
                                !.reqs[k].pc = "save",
                                !.reqs[k].pk = Len(accrual.rows) + 1,
                                !.reqs[k].balance = StoredBalance(0, 0, 0, 0)]
           ELSE LET pk == CHOOSE i \in found : \A j \in found : i <= j
                IN  accrual' = [accrual EXCEPT
                                    !.reqs[k].pc = "save",
                                    !.reqs[k].pk = pk,
                                    !.reqs[k].balance = accrual.rows[pk].bal]
        /\ OnlyChanges("accrual")

\* viewsets.py:541-549  the in-memory row is accrued and saved; the loops
\* advance, and after the last pair the response is returned.
AccrueSave(k) ==
    LET r == accrual.reqs[k]
    IN  /\ r.pc = "save"
        /\ accrual' = [accrual EXCEPT
                           !.rows[r.pk].bal = AccruedBalance(r.balance),
                           !.reqs[k].accrued_count = @ + 1,
                           !.reqs[k].i = IF r.i < Len(r.pairs) THEN r.i + 1 ELSE r.i,
                           !.reqs[k].pc = IF r.i < Len(r.pairs) THEN "get" ELSE "done"]
        /\ OnlyChanges("accrual")

\* The table before the first accrual of the year: empty, or holding a row
\* of e1/lt1 for this year or for last year, of which one day is pending and
\* one taken; any employees and leave types may be active.
AccrualInit ==
    /\ CoreIdle
    /\ IdleExcept("accrual")
    /\ \E ae \in SUBSET Employees, al \in SUBSET LeaveTypes, y \in Years, n \in 0..1 :
           accrual = [rows |-> IF n = 0 THEN <<>>
                               ELSE <<[BalanceRow("e1", "lt1", y) EXCEPT
                                           !.bal.pending_days = 1,
                                           !.bal.taken_days = 1,
                                           !.bal.closing_balance = -1]>>,
                      active_employees |-> ae,
                      active_leave_types |-> al,
                      invocations |-> 0,
                      reqs |-> [k \in Requests |-> IdleAccrue]]

AccrualNext ==
    \E k \in Requests :
        \/ AccrueStart(k)
        \/ AccrueGet(k)
        \/ AccrueCreate(k)
        \/ AccrueSave(k)

AccrualSpec == AccrualInit /\ [][AccrualNext]_vars

\* ------------------------------------------------ payslips: batch generation

\* PayrollPeriod ids that exist, and the period_id values a request may carry
\* (0: no period_id in the body; 2: no such period).
PayPeriods == {1, 11}
PeriodInputs == {0, 1, 2, 11}

\* Employee.employee_no values (core_models.py:81, unique), as character
\* sequences.
EmployeeNos == {<<"7">>, <<"1", "-", "7">>}

\* str(period.id)
RECURSIVE Digits(_)
Digits(n) ==
    LET digit == <<"0", "1", "2", "3", "4", "5", "6", "7", "8", "9">>
    IN  IF n < 10 THEN <<digit[n + 1]>> ELSE Digits(n \div 10) \o <<digit[(n % 10) + 1]>>

\* Variant: the number names the period only.
PayslipNumber_PeriodOnly(period, employee_no) ==
    <<"P", "S", "-">> \o Digits(period)

\* views_reports.py:382  f"PS-{period.id}-{calc.employee.employee_no}"
PayslipNumber(period, employee_no) ==
    <<"P", "S", "-">> \o Digits(period) \o <<"-">> \o employee_no

\* A PayrollCalculation row: its employee and its period.
Calculation(e, p) == [employee |-> e, payroll_period |-> p]

\* models.py:3391-3406  a Payslip row.
PayslipRow(calc, number) ==
    [payroll_calculation |-> calc, employee |-> calc.employee,
     payroll_period |-> calc.payroll_period, payslip_number |-> number]

PayslipsOf(payslips, calc) ==
    {i \in 1..Len(payslips) : payslips[i].payroll_calculation = calc}

\* views_reports.py:377-384  get_or_create of one calculation's payslip: the
\* row is inserted when the calculation has none and the number is free
\* (payroll_calculation is one-to-one, payslip_number is unique); a refused
\* insert raises.  The result is the table and what happened.
GetOrCreatePayslip(payslips, calc) ==
    LET number == PayslipNumber(calc.payroll_period, calc.employee)
    IN  IF PayslipsOf(payslips, calc) # {}
        THEN [payslips |-> payslips, outcome |-> "found"]
        ELSE IF \E i \in 1..Len(payslips) : payslips[i].payslip_number = number
             THEN [payslips |-> payslips, outcome |-> "error"]
             ELSE [payslips |-> Append(payslips, PayslipRow(calc, number)),
                   outcome |-> "created"]

\* views_reports.py:375-398  the loop over the period's calculations; acc
\* carries the table and the two lists' lengths.
RECURSIVE GenerateAll(_, _)
GenerateAll(calcs, acc) ==
    IF calcs = {}
    THEN acc
    ELSE LET calc == CHOOSE c \in calcs : TRUE
             g == GetOrCreatePayslip(acc.payslips, calc)
         IN  GenerateAll(calcs \ {calc},
                         [payslips |-> g.payslips,
                          generated |-> acc.generated + (IF g.outcome = "created" THEN 1 ELSE 0),
                          errors |-> acc.errors + (IF g.outcome = "error" THEN 1 ELSE 0)])

CalculationsOf(p) == {c \in slips.calculations : c.payroll_period = p}

\* views_reports.py:353-412  POST batch_generate_payslips with period_id = p.
BatchGeneratePayslips(p) ==
    /\ OnlyChanges("slips")
    /\ IF p = 0
       THEN slips' = [slips EXCEPT !.status = 400, !.period_id = p,
                                   !.generated = 0, !.errors = 0]
       ELSE IF p \notin PayPeriods
       THEN slips' = [slips EXCEPT !.status = 404, !.period_id = p,
                                   !.generated = 0, !.errors = 0]
       ELSE LET done == GenerateAll(CalculationsOf(p),
                                    [payslips |-> slips.payslips,
                                     generated |-> 0, errors |-> 0])
            IN  slips' = [slips EXCEPT !.status = 200, !.period_id = p,
                                       !.payslips = done.payslips,
                                       !.generated = done.generated,
                                       !.errors = done.errors]

\* admin.py:866  PayrollCalculationAdmin, add form: a calculation of employee
\* e for period p is stored unless the pair has one (models.py:3323).
AddCalculation(e, p) ==
    /\ Calculation(e, p) \notin slips.calculations
    /\ slips' = [slips EXCEPT !.calculations = @ \cup {Calculation(e, p)},
                              !.status = 0]
    /\ OnlyChanges("slips")

\* No payslip yet; any calculations, at most one per (employee, period).
SlipsInit ==
    /\ CoreIdle
    /\ IdleExcept("slips")
    /\ \E cs \in SUBSET {Calculation(e, p) : e \in EmployeeNos, p \in PayPeriods} :
           slips = [calculations |-> cs, payslips |-> <<>>, status |-> 0,
                    period_id |-> 0, generated |-> 0, errors |-> 0]

SlipsNext ==
    \/ \E p \in PeriodInputs : BatchGeneratePayslips(p)
    \/ \E e \in EmployeeNos, p \in PayPeriods : AddCalculation(e, p)

SlipsSpec == SlipsInit /\ [][SlipsNext]_vars

\* ------------------------------------- payroll calculation and its details

ItemTypes == {"earning", "deduction"}

\* models.py:3333-3386  a PayrollCalculationDetail line of the calculation.
DetailLine(t, amt) == [item_type |-> t, amount |-> amt]

RECURSIVE SumAmounts(_)
SumAmounts(lines) ==
    IF lines = <<>> THEN 0 ELSE Head(lines).amount + SumAmounts(Tail(lines))

\* viewsets.py:667-668  details.filter(item_type=t)
LinesOfType(lines, t) == SelectSeq(lines, LAMBDA d : d.item_type = t)

RECURSIVE Amounts(_)
Amounts(lines) ==
    IF lines = <<>> THEN <<>> ELSE <<Head(lines).amount>> \o Amounts(Tail(lines))

\* viewsets.py:659-696  GET breakdown: the lines by type and the stored
\* aggregates are returned as they are; nothing is compared or written.
Breakdown ==
    /\ detail.exists
    /\ detail' = [detail EXCEPT
                      !.breakdown =
                          [earnings |-> Amounts(LinesOfType(detail.details, "earning")),
                           deductions |-> Amounts(LinesOfType(detail.details, "deduction")),
                           gross_pay |-> detail.gross_pay,
                           total_deductions |-> detail.total_deductions]]
    /\ OnlyChanges("detail")

\* admin.py:866-930  PayrollCalculationAdmin change form: gross_pay and
\* total_deductions are editable fields; the inline lines are read-only
\* (admin.py:854-863) and stay as they are.
AdminChangeCalculation(g, d) ==
    /\ detail.exists
    /\ detail' = [detail EXCEPT !.gross_pay = g, !.total_deductions = d]
    /\ OnlyChanges("detail")

\* admin.py:866-930  PayrollCalculationAdmin add form: a calculation is stored
\* with the aggregates typed in; the inline cannot add lines (amount is
\* read-only there).
AdminAddCalculation(g, d) ==
    /\ ~detail.exists
    /\ detail' = [detail EXCEPT !.exists = TRUE, !.gross_pay = g,
                                !.total_deductions = d, !.details = <<>>]
    /\ OnlyChanges("detail")

NoBreakdown ==
    [earnings |-> <<>>, deductions |-> <<>>, gross_pay |-> 0, total_deductions |-> 0]

\* No calculation, or one as the payroll run stores it: up to two lines, and
\* aggregates that are the sums of the lines.
DetailInit ==
    /\ CoreIdle
    /\ IdleExcept("detail")
    /\ \/ detail = [exists |-> FALSE, gross_pay |-> 0, total_deductions |-> 0,
                    details |-> <<>>, breakdown |-> NoBreakdown]
       \/ \E n \in 0..MaxLines :
            \E ls \in [1..n -> {DetailLine(t, amt) : t \in ItemTypes, amt \in 1..MaxAmount}] :
              detail = [exists |-> TRUE,
                        gross_pay |-> SumAmounts(LinesOfType(ls, "earning")),
                        total_deductions |-> SumAmounts(LinesOfType(ls, "deduction")),
                        details |-> ls, breakdown |-> NoBreakdown]

DetailNext ==
    \/ Breakdown
    \/ \E g, d \in 0..MaxAmount : AdminChangeCalculation(g, d)
    \/ \E g, d \in 0..MaxAmount : AdminAddCalculation(g, d)

DetailSpec == DetailInit /\ [][DetailNext]_vars

\* ------------------------------------------ rows and the generic endpoints

\* The four tables, by the ModelViewSet serving each, and the primary keys
\* used for rows of any table.
Tables == {"payroll_period", "leave_application", "attendance_record", "overtime_request"}
RowIds == {"x1", "x2"}

\* models.py:795-799, 974-977, 1324-1328  the tables whose rows hold a
\* foreign key to the employee with on_delete=CASCADE.
EmployeeOwned == {"leave_application", "attendance_record", "overtime_request"}

\* ModelViewSet.create of the table's viewset (viewsets.py:190, 353, 405,
\* 563): a row is stored; an employee-owned row needs its employee.
ApiCreateRow(t, x) ==
    /\ x \notin store.rows[t]
    /\ IF t \in EmployeeOwned /\ ~store.employee
       THEN store' = [store EXCEPT !.status = 400]
       ELSE store' = [store EXCEPT !.rows[t] = @ \cup {x}, !.status = 201]
    /\ OnlyChanges("store")

\* ModelViewSet.destroy of the table's viewset (viewsets.py:190, 353, 405,
\* 563): DELETE /<prefix>/<id>/ removes the row.
ApiDestroyRow(t, x) ==
    /\ IF x \in store.rows[t]
       THEN store' = [store EXCEPT !.rows[t] = @ \ {x}, !.status = 204]
       ELSE store' = [store EXCEPT !.status = 404]
    /\ OnlyChanges("store")

\* ModelViewSet.destroy of EmployeeViewSet (viewsets.py:26): the employee is
\* removed and, by cascade, every row that references it.
ApiDestroyEmployee ==
    /\ store.employee
    /\ store' = [store EXCEPT
                     !.employee = FALSE,
                     !.rows = [t \in Tables |->
                                   IF t \in EmployeeOwned THEN {} ELSE store.rows[t]],
                     !.status = 204]
    /\ OnlyChanges("store")

\* ModelViewSet.create of EmployeeViewSet (viewsets.py:26).
ApiCreateEmployee ==
    /\ ~store.employee
    /\ store' = [store EXCEPT !.employee = TRUE, !.status = 201]
    /\ OnlyChanges("store")

\* One employee and no row.
StoreInit ==
    /\ CoreIdle
    /\ IdleExcept("store")
    /\ store = [employee |-> TRUE, rows |-> [t \in Tables |-> {}], status |-> 0]

StoreNext ==
    \/ \E t \in Tables, x \in RowIds : ApiCreateRow(t, x)
    \/ \E t \in Tables, x \in RowIds : ApiDestroyRow(t, x)
    \/ ApiDestroyEmployee
    \/ ApiCreateEmployee

StoreSpec == StoreInit /\ [][StoreNext]_vars

\* ------------------------------------------------ accounts: first-time login

Sessions == {"s1", "s2"}

\* accounts.models.User, the columns the login flow reads and writes; setups
\* counts the first-time setups completed since is_first_login was last set.
UserRow(first) ==
    [exists |-> TRUE, is_first_login |-> first, is_active |-> TRUE, setups |-> 0]

\* A browser session: its first_time_user_id key, the user it is logged in
\* as, and the FirstTimeSetupView request it has in flight (current_user is
\* the instance dispatch loaded).
NewSession ==
    [first_time_user_id |-> "none", user |-> "none", pc |-> "idle",
     current_user |-> [id |-> "none", is_active |-> TRUE]]

\* request.user.is_authenticated
Authenticated(s) ==
    /\ auth.sessions[s].user # "none"
    /\ auth.users[auth.sessions[s].user].exists

\* Variant: nobody is sent to the setup.
NeedsSetup_Never(user) == FALSE

\* accounts/views.py:62  if user.is_first_login
NeedsSetup(user) == user.is_first_login

\* accounts/views.py:36-78 and accounts/forms.py:16-56  POST login with the
\* name of account u; ok tells whether the password is the account's.
Login(s, u, ok) ==
    /\ auth.sessions[s].pc = "idle"
    /\ OnlyChanges("auth")
    /\ IF Authenticated(s)
       THEN auth' = [auth EXCEPT !.status = "login_already_authenticated"]
       ELSE IF ~ok \/ ~auth.users[u].exists \/ ~auth.users[u].is_active
       THEN auth' = [auth EXCEPT !.status = "login_invalid"]
       ELSE IF NeedsSetup(auth.users[u])
       THEN auth' = [auth EXCEPT !.sessions[s].first_time_user_id = u,
                                 !.status = "login_to_setup"]
       ELSE auth' = [auth EXCEPT !.sessions[s].user = u,
                                 !.status = "login_ok"]

\* accounts/views.py:103-129  FirstTimeSetupView.dispatch of a GET or POST.
SetupDispatch(s) ==
    LET uid == auth.sessions[s].first_time_user_id
    IN  /\ auth.sessions[s].pc = "idle"
        /\ OnlyChanges("auth")
        /\ IF uid = "none"
           THEN auth' = [auth EXCEPT !.status = "setup_invalid_access"]
           ELSE IF ~auth.users[uid].exists
           THEN auth' = [auth EXCEPT !.status = "setup_user_not_found"]
           ELSE IF ~auth.users[uid].is_first_login
           THEN auth' = [auth EXCEPT !.status = "setup_already_completed"]
           ELSE auth' = [auth EXCEPT
                             !.sessions[s].pc = "form",
                             !.sessions[s].current_user =
                                 [id |-> uid, is_active |-> auth.users[uid].is_active],
                             !.status = "setup_dispatched"]

\* The request was a GET, or a POST whose form did not validate
\* (accounts/views.py:169-177): the form is shown, nothing is written.
SetupShowForm(s) ==
    /\ auth.sessions[s].pc = "form"
    /\ auth' = [auth EXCEPT !.sessions[s].pc = "idle",
                            !.sessions[s].current_user = NewSession.current_user,
                            !.status = "setup_form"]
    /\ OnlyChanges("auth")

\* accounts/views.py:148-167 and accounts/forms.py:149-163  the POST's form
\* validated: the instance loaded by dispatch is saved with the new name and
\* password and is_first_login = False, the session key is removed and the
\* user is logged in.
SetupFormValid(s) ==
    LET cu == auth.sessions[s].current_user
    IN  /\ auth.sessions[s].pc = "form"
        /\ auth' = [auth EXCEPT
                        !.users[cu.id] = [exists |-> TRUE,
                                          is_first_login |-> FALSE,
                                          is_active |-> cu.is_active,
                                          setups |-> auth.users[cu.id].setups + 1],
                        !.sessions[s] = [NewSession EXCEPT !.user = cu.id],
                        !.status = "setup_ok"]
        /\ OnlyChanges("auth")

\* Variant: the request method is not looked at.
QuickAction_OnAnyMethod(u, a, m) ==
    /\ OnlyChanges("auth")
    /\ IF ~auth.users[u].exists
       THEN auth' = [auth EXCEPT !.status = "quick_not_found"]
       ELSE IF a = "toggle_active"
       THEN auth' = [auth EXCEPT !.users[u].is_active = ~@,
                                 !.status = "quick_toggled"]
       ELSE IF a = "reset_first_login"
       THEN auth' = [auth EXCEPT !.users[u].is_first_login = TRUE,
                                 !.users[u].setups = 0,
                                 !.status = "quick_reset"]
       ELSE auth' = [auth EXCEPT !.status = "quick_invalid_action"]

\* accounts/views.py:311-350  user_quick_actions_ajax, by an admin: request
\* of method m for user u with the POST field action = a.
QuickAction(u, a, m) ==
    /\ OnlyChanges("auth")
    /\ IF m # "POST"
       THEN auth' = [auth EXCEPT !.status = "quick_method_not_allowed"]
       ELSE IF ~auth.users[u].exists
       THEN auth' = [auth EXCEPT !.status = "quick_not_found"]
       ELSE IF a = "toggle_active"
       THEN auth' = [auth EXCEPT !.users[u].is_active = ~@,
                                 !.status = "quick_toggled"]
       ELSE IF a = "reset_first_login"
       THEN auth' = [auth EXCEPT !.users[u].is_first_login = TRUE,
                                 !.users[u].setups = 0,
                                 !.status = "quick_reset"]
       ELSE auth' = [auth EXCEPT !.status = "quick_invalid_action"]

\* accounts/views.py:608-615  delete_staff, by an admin.
DeleteStaff(u) ==
    /\ auth.users[u].exists
    /\ auth' = [auth EXCEPT !.users[u].exists = FALSE, !.status = "staff_deleted"]
    /\ OnlyChanges("auth")

QuickActions == {"toggle_active", "reset_first_login", "other"}

\* Two accounts, new or already set up; two fresh sessions.
AuthInit ==
    /\ CoreIdle
    /\ IdleExcept("auth")
    /\ \E fa, fb \in BOOLEAN :
           auth = [users |-> [u \in Users |-> UserRow(IF u = "u1" THEN fa ELSE fb)],
                   sessions |-> [s \in Sessions |-> NewSession],
                   status |-> "none"]

AuthNext ==
    \/ \E s \in Sessions, u \in Users, ok \in BOOLEAN : Login(s, u, ok)
    \/ \E s \in Sessions : SetupDispatch(s)
    \/ \E s \in Sessions : SetupShowForm(s)
    \/ \E s \in Sessions : SetupFormValid(s)
    \/ \E u \in Users, a \in QuickActions, m \in Methods : QuickAction(u, a, m)
    \/ \E u \in Users : DeleteStaff(u)

AuthSpec == AuthInit /\ [][AuthNext]_vars

\* ---------------------------------------------- employee addresses: primary

\* The hr_employee_address rows of one employee, and the workers that run a
\* save or an admin action at the same time.
AddressTypes == {"home", "work"}

AddressRow(t, p) == [address_type |-> t, is_primary |-> p]

PrimariesOf(rows, t) ==
    {a \in RowIds : rows[a].address_type = t /\ rows[a].is_primary}

IdleWorker ==
    [pc |-> "idle", pk |-> "none", instance |-> AddressRow("home", FALSE)]

\* core_models.py:284-289  the other primary rows of the instance's type are
\* set to is_primary = False.
DemoteOthers(rows, pk, t) ==
    [a \in RowIds |->
        IF a # pk /\ rows[a].address_type = t /\ rows[a].is_primary
        THEN [rows[a] EXCEPT !.is_primary = FALSE]
        ELSE rows[a]]

\* core_models.py:282-289  EmployeeAddress.save up to super().save(), for
\* address a as a form filled it in (type t, is_primary p).
SaveDemote(k, a, t, p) ==
    /\ addr.jobs[k].pc = "idle"
    /\ addr' = [addr EXCEPT
                    !.rows = IF p THEN DemoteOthers(addr.rows, a, t) ELSE @,
                    !.jobs[k] = [pc |-> "write", pk |-> a, instance |-> AddressRow(t, p)],
                    !.status = "save_started"]
    /\ OnlyChanges("addr")

\* core_models.py:290  super().save(): the instance's columns are written.
SaveWrite(k) ==
    /\ addr.jobs[k].pc = "write"
    /\ addr' = [addr EXCEPT
                    !.rows[addr.jobs[k].pk] = addr.jobs[k].instance,
                    !.jobs[k] = IdleWorker,
                    !.status = "saved"]
    /\ OnlyChanges("addr")

\* admin.py:297-300  mark_as_primary with the selection qs: with one address
\* selected it is loaded, otherwise the action answers with an error.
MarkRead(k, qs) ==
    /\ addr.jobs[k].pc = "idle"
    /\ IF Cardinality(qs) = 1
       THEN LET a == CHOOSE x \in qs : TRUE
            IN  addr' = [addr EXCEPT
                             !.jobs[k] = [pc |-> "clear", pk |-> a,
                                          instance |-> addr.rows[a]],
                             !.status = "mark_started"]
       ELSE addr' = [addr EXCEPT !.status = "select_only_one"]
    /\ OnlyChanges("addr")

\* admin.py:301-305  every address of the instance's type is set to
\* is_primary = False and the instance gets is_primary = True.
MarkClear(k) ==
    LET j == addr.jobs[k]
    IN  /\ j.pc = "clear"
        /\ addr' = [addr EXCEPT
                        !.rows = [a \in RowIds |->
                                     IF addr.rows[a].address_type = j.instance.address_type
                                     THEN [addr.rows[a] EXCEPT !.is_primary = FALSE]
                                     ELSE addr.rows[a]],
                        !.jobs[k].pc = "demote",
                        !.jobs[k].instance.is_primary = TRUE]
        /\ OnlyChanges("addr")

\* admin.py:306 and core_models.py:284-289  address.save() of the action, up
\* to super().save().
MarkDemote(k) ==
    LET j == addr.jobs[k]
    IN  /\ j.pc = "demote"
        /\ addr' = [addr EXCEPT
                        !.rows = DemoteOthers(addr.rows, j.pk, j.instance.address_type),
                        !.jobs[k].pc = "write"]
        /\ OnlyChanges("addr")

\* Two addresses of the employee, at most one primary per type.
AddrInit ==
    /\ CoreIdle
    /\ IdleExcept("addr")
    /\ \E ta, tb \in AddressTypes, pa, pb \in BOOLEAN :
           /\ ~(ta = tb /\ pa /\ pb)
           /\ addr = [rows |-> [a \in RowIds |->
                                   IF a = "x1" THEN AddressRow(ta, pa) ELSE AddressRow(tb, pb)],
                      jobs |-> [k \in Requests |-> IdleWorker],
                      status |-> "none"]

AddrNext ==
    \E k \in Requests :
        \/ \E a \in RowIds, t \in AddressTypes, p \in BOOLEAN : SaveDemote(k, a, t, p)
        \/ SaveWrite(k)
        \/ \E qs \in SUBSET RowIds : MarkRead(k, qs)
        \/ MarkClear(k)
        \/ MarkDemote(k)

AddrSpec == AddrInit /\ [][AddrNext]_vars

\* ------------------------------------------------------ reports: the endpoint

\* Query parameter values: "" stands for a parameter that is not sent; "1" is
\* the id of an existing row, "9" of none, "abc" is not a number.
ReportTypeInputs ==
    {"", "payslip", "employee_list", "payroll_register", "payroll_comparison",
     "attendance", "leave", "leave_balance", "bogus"}
IdInputs == {"", "1", "9", "abc"}
FormatInputs == {"pdf", "excel"}

\* views_reports.py:280-344  the 'type' of every entry available_reports
\* returns.
AvailableReportTypes ==
    {"payslip", "payroll_register", "payroll_comparison", "employee_list",
     "attendance", "leave", "leave_balance"}

Answer(status, error) == [status |-> status, error |-> error]

\* views_reports.py:241-247, 264-274  Model.objects.get(id=...) and the
\* generator: a non-numeric id raises ValueError, which no handler catches.
LookupAnswer(id, not_found) ==
    IF id = "1" THEN Answer(200, "")
    ELSE IF id = "9" THEN Answer(404, not_found)
    ELSE Answer(500, "ValueError")

\* views_reports.py:219-277  generate_report.
GenerateReportAnswer(report_type, calculation_id, period_id, format) ==
    IF report_type = ""
    THEN Answer(400, "report_type is required")
    ELSE IF report_type = "payslip"
    THEN IF calculation_id = ""
         THEN Answer(400, "calculation_id is required")
         ELSE LookupAnswer(calculation_id, "Calculation not found")
    ELSE IF report_type = "employee_list"
    THEN Answer(200, "")
    ELSE IF report_type = "payroll_register"
    THEN IF period_id = ""
         THEN Answer(400, "period_id is required")
         ELSE LookupAnswer(period_id, "Period not found")
    ELSE Answer(400, "Invalid report_type")

\* GET /api/reports/generate/ with the given query parameters.
GenerateReport(rt, c, p, f) ==
    /\ report' = [report_type |-> rt, calculation_id |-> c, period_id |-> p,
                  format |-> f, listed |-> report.listed,
                  answer |-> GenerateReportAnswer(rt, c, p, f)]
    /\ OnlyChanges("report")

\* views_reports.py:280-344  GET available_reports.
AvailableReports ==
    /\ report' = [report EXCEPT !.listed = AvailableReportTypes]
    /\ OnlyChanges("report")

ReportInit ==
    /\ CoreIdle
    /\ IdleExcept("report")
    /\ report = [report_type |-> "", calculation_id |-> "", period_id |-> "",
                 format |-> "pdf", listed |-> {}, answer |-> Answer(0, "")]

ReportNext ==
    \/ \E rt \in ReportTypeInputs, c, p \in IdInputs, f \in FormatInputs :
           GenerateReport(rt, c, p, f)
    \/ AvailableReports

ReportSpec == ReportInit /\ [][ReportNext]_vars

\* ------------------------------------------------------- overtime requests


\* request.data.get('notes', ''): a note, no notes key (""), or a JSON null.
NotesInputs == {"", "n1", "null"}

\* models.py:966-1007  an OvertimeRequest row as created: pending, nobody
\* has decided, no notes.
NewOvertime ==
    [exists |-> TRUE, approval_status |-> "pending", approved_by |-> "null",
     approval_notes |-> ""]

NoOvertime == [NewOvertime EXCEPT !.exists = FALSE]

IdleOvertimeWorker ==
    [pc |-> "idle", kind |-> "none", pk |-> "none", overtime_request |-> NoOvertime]

\* Variant: an approved request can be decided again.
OvertimeDecidable_UnlessRejected(o) == o.approval_status # "rejected"

\* viewsets.py:368, 385  the decision goes on only when
\* approval_status == 'pending'.
OvertimeDecidable(o) == o.approval_status = "pending"

\* viewsets.py:366-372 / 383-389  POST approve or reject of request o by
\* user u: get_object and the status check; the instance gets the decision.
OvertimeCheck(k, kind, o, u, notes) ==
    /\ overtime.jobs[k].pc = "idle"
    /\ OnlyChanges("overtime")
    /\ IF ~overtime.rows[o].exists
       THEN overtime' = [overtime EXCEPT !.status = "not_found"]
       ELSE IF ~OvertimeDecidable(overtime.rows[o])
       THEN overtime' = [overtime EXCEPT !.status = "not_pending"]
       ELSE overtime' =
                [overtime EXCEPT
                     !.status = "checked",
                     !.jobs[k] =
                         [pc |-> "save", kind |-> kind, pk |-> o,
                          overtime_request |->
                              IF kind = "approve"
                              THEN [overtime.rows[o] EXCEPT
                                        !.approval_status = "approved",
                                        !.approved_by = u]
                              ELSE [overtime.rows[o] EXCEPT
                                        !.approval_status = "rejected",
                                        !.approved_by = u,
                                        !.approval_notes = notes]]]

\* viewsets.py:376-379 / 394-397  overtime_request.save() and the answer;
\* approval_notes is NOT NULL, so saving a null note raises and writes
\* nothing.
OvertimeSave(k) ==
    LET j == overtime.jobs[k]
    IN  /\ j.pc = "save"
        /\ OnlyChanges("overtime")
        /\ IF j.overtime_request.approval_notes = "null"
           THEN overtime' = [overtime EXCEPT !.jobs[k] = IdleOvertimeWorker,
                                             !.status = "server_error"]
           ELSE overtime' = [overtime EXCEPT
                                 !.rows[j.pk] = j.overtime_request,
                                 !.jobs[k] = IdleOvertimeWorker,
                                 !.status = IF j.kind = "approve"
                                            THEN "approved" ELSE "rejected"]

\* ModelViewSet.create of OvertimeRequestViewSet (viewsets.py:353): a new
\* pending request.
OvertimeCreate(o) ==
    /\ ~overtime.rows[o].exists
    /\ overtime' = [overtime EXCEPT !.rows[o] = NewOvertime, !.status = "created"]
    /\ OnlyChanges("overtime")

OvertimeInit ==
    /\ CoreIdle
    /\ IdleExcept("overtime")
    /\ overtime = [rows |-> [o \in RowIds |-> IF o = "x1" THEN NewOvertime ELSE NoOvertime],
                   jobs |-> [k \in Requests |-> IdleOvertimeWorker],
                   status |-> "none"]

OvertimeNext ==
    \/ \E k \in Requests, kind \in {"approve", "reject"}, o \in RowIds,
          u \in Users, notes \in NotesInputs : OvertimeCheck(k, kind, o, u, notes)
    \/ \E k \in Requests : OvertimeSave(k)
    \/ \E o \in RowIds : OvertimeCreate(o)

OvertimeSpec == OvertimeInit /\ [][OvertimeNext]_vars

\* ------------------------------------------------------ attendance: clock_in

\* employee_id values of a request: an employee, an id of no employee, and a
\* value that is not a number.
EmployeeIdInputs == Employees \cup {"e9", "abc"}
Dates == {"today", "yesterday"}

\* An hr_attendance_record row; check_in_time is "null" or names the request
\* that clocked in (its current_time).
AttendanceRow(e, d, t, s) ==
    [employee |-> e, attendance_date |-> d, check_in_time |-> t, status |-> s]

RecordsOf(records, e, d) ==
    {i \in 1..Len(records) : /\ records[i].employee = e
                             /\ records[i].attendance_date = d}

\* Variant: the table has no uniqueness constraint.
AttendanceUnique_Off(records, e, d) == TRUE

\* models.py:891  unique_together = ['employee', 'attendance_date']: an
\* INSERT is accepted only when no row has the key.
AttendanceUnique(records, e, d) == RecordsOf(records, e, d) = {}

IdleClock == [pc |-> "idle", employee |-> "none", pk |-> 0]

\* The request of worker k is answered.
Answered(k, outcome) ==
    [attendance EXCEPT !.jobs[k] = IdleClock, !.status = outcome]

\* viewsets.py:205-241  clock_in up to get_or_create: the employee lookup,
\* the check of today's record and the schedule lookup.
ClockInCheck(k, e) ==
    LET existing == RecordsOf(attendance.records, e, "today")
    IN  /\ attendance.jobs[k].pc = "idle"
        /\ OnlyChanges("attendance")
        /\ IF e = "abc"
           THEN attendance' = Answered(k, "server_error")
           ELSE IF e \notin Employees
           THEN attendance' = Answered(k, "employee_not_found")
           ELSE IF \E i \in existing : attendance.records[i].check_in_time # "null"
           THEN attendance' = Answered(k, "already_clocked_in")
           ELSE IF e \notin attendance.scheduled
           THEN attendance' = Answered(k, "no_active_schedule")
           ELSE attendance' =
                    [attendance EXCEPT
                         !.jobs[k] = [IdleClock EXCEPT !.pc = "get", !.employee = e],
                         !.status = "checked"]

\* viewsets.py:244-253  get_or_create, its SELECT.
ClockInGet(k) ==
    LET j == attendance.jobs[k]
        found == RecordsOf(attendance.records, j.employee, "today")
    IN  /\ j.pc = "get"
        /\ OnlyChanges("attendance")
        /\ IF found # {}
           THEN attendance' =
                    [attendance EXCEPT
                         !.jobs[k].pc = "update",
                         !.jobs[k].pk = CHOOSE i \in found : \A x \in found : i <= x]
           ELSE attendance' = [attendance EXCEPT !.jobs[k].pc = "create"]

\* viewsets.py:244-253, 261-262  get_or_create, its INSERT with the defaults;
\* on IntegrityError get_or_create reads the row another request inserted.
ClockInCreate(k) ==
    LET j == attendance.jobs[k]
        found == RecordsOf(attendance.records, j.employee, "today")
    IN  /\ j.pc = "create"
        /\ OnlyChanges("attendance")
        /\ IF AttendanceUnique(attendance.records, j.employee, "today")
           THEN attendance' =
                    [Answered(k, "created") EXCEPT
                         !.records = Append(@, AttendanceRow(j.employee, "today", k, "present"))]
           ELSE attendance' =
                    [attendance EXCEPT
                         !.jobs[k].pc = "update",
                         !.jobs[k].pk = CHOOSE i \in found : \A x \in found : i <= x]

\* viewsets.py:255-262  the row was not created by this request: it gets the
\* request's check-in time and is saved.
ClockInUpdate(k) ==
    LET j == attendance.jobs[k]
    IN  /\ j.pc = "update"
        /\ attendance' =
               [Answered(k, "updated") EXCEPT
                    !.records[j.pk].check_in_time = k,
                    !.records[j.pk].status = "present"]
        /\ OnlyChanges("attendance")

\* views.py:300-323  attendance_mark: POST with a date and an employee; the
\* status of the row is set. When there is no row, the INSERT carries no
\* work_schedule, which models.py:804-807 declares NOT NULL: the database
\* refuses it and the request fails without a row.
AttendanceMark(e, d) ==
    LET found == RecordsOf(attendance.records, e, d)
    IN  /\ IF AttendanceUnique(attendance.records, e, d)
           THEN attendance' = [attendance EXCEPT !.status = "server_error"]
           ELSE attendance' =
                    [attendance EXCEPT
                         !.records[CHOOSE i \in found : \A x \in found : i <= x].status = "absent",
                         !.status = "marked"]
        /\ OnlyChanges("attendance")

\* No attendance record; any employees have an active work schedule.
AttendanceInit ==
    /\ CoreIdle
    /\ IdleExcept("attendance")
    /\ \E sch \in SUBSET Employees :
           attendance = [records |-> <<>>, scheduled |-> sch,
                         jobs |-> [k \in Requests |-> IdleClock],
                         status |-> "none"]

AttendanceNext ==
    \/ \E k \in Requests, e \in EmployeeIdInputs : ClockInCheck(k, e)
    \/ \E k \in Requests : ClockInGet(k)
    \/ \E k \in Requests : ClockInCreate(k)
    \/ \E k \in Requests : ClockInUpdate(k)
    \/ \E e \in Employees, d \in Dates : AttendanceMark(e, d)

AttendanceSpec == AttendanceInit /\ [][AttendanceNext]_vars

\* ----------------------------------------------------- attendance: clock_out

\* Times of day, in minutes after midnight, at which a request arrives.
ClockTimes == {0, 1, 479, 480, 481, 540, 1020, 1439}

\* viewsets.py:190-195, serializers.py:384-386  POST on the attendance-record
\* collection: the serializer accepts every field, and check_in_time may be
\* left out. Today's record of employee e1 is created with the check-in time
\* t (<<>> is NULL) and the hours at their default 0.
ApiCreateAttendance(t) ==
    /\ ~clock.record.exists
    /\ clock' = [clock EXCEPT
                     !.record = [exists |-> TRUE, check_in_time |-> t,
                                 check_out_time |-> <<>>, total_hours |-> 0,
                                 regular_hours |-> 0, overtime_hours |-> 0],
                     !.status = "created"]
    /\ OnlyChanges("clock")

\* viewsets.py:264-329  clock_out of employee_id e at the time now. Hours are
\* kept in hundredths, as the DecimalField columns store them; standard is
\* attendance_policy.standard_hours_per_day, a Decimal.
ClockOut(e, now) ==
    LET r == clock.record
        check_in == r.check_in_time[1]
        \* 304-314: the check-out is taken on the next day when it is earlier
        minutes == IF now < check_in THEN now + 1440 - check_in ELSE now - check_in
        \* 315, and the save of a float into a column of two decimal places
        hundredths == (10 * minutes + 3) \div 6
        answer(s) == clock' = [clock EXCEPT !.status = s]
    IN  /\ OnlyChanges("clock")
        /\ IF e = "abc"
           THEN answer("server_error")            \* 270: ValueError, not caught
           ELSE IF e \notin Employees
           THEN answer("employee_not_found")      \* 271-275
           ELSE IF e # "e1" \/ ~r.exists
           THEN answer("no_record")               \* 286-290
           ELSE IF r.check_out_time # <<>>
           THEN answer("already_clocked_out")     \* 292-296
           ELSE IF r.check_in_time = <<>>
           THEN answer("server_error")            \* 304: combine(date, None) raises TypeError
           ELSE IF minutes * 100 <= clock.standard * 60
           THEN clock' = [clock EXCEPT            \* 319-321, 326
                              !.record.check_out_time = <<now>>,
                              !.record.total_hours = hundredths,
                              !.record.regular_hours = hundredths,
                              !.record.overtime_hours = 0,
                              !.status = "clocked_out"]
           ELSE answer("server_error")            \* 324: float - Decimal raises TypeError

\* No attendance record for today; the policy's standard day is 4 or 8 hours.
ClockInit ==
    /\ CoreIdle
    /\ IdleExcept("clock")
    /\ \E s \in {400, 800} :
           clock = [record |-> [exists |-> FALSE, check_in_time |-> <<>>,
                                check_out_time |-> <<>>, total_hours |-> 0,
                                regular_hours |-> 0, overtime_hours |-> 0],
                    standard |-> s, status |-> "none"]

ClockSpec ==
    ClockInit /\ [][\/ \E t \in {<<>>} \cup {<<m>> : m \in ClockTimes} :
                          ApiCreateAttendance(t)
                    \/ \E e \in EmployeeIdInputs, now \in ClockTimes :
                          ClockOut(e, now)]_vars

\* ================================================================ claims

\* C1: a submit of a draft application whose balance row has
\* closing_balance - pending_days < working_days answers with the
\* insufficient-balance error and changes neither the application nor the
\* balance.
C1_InsufficientSubmitRejected ==
    [][\A a \in AppIds :
          ( /\ ApiSubmit(a)
            /\ apps[a].exists
            /\ apps[a].status = "draft"
            /\ balance.present
            /\ balance.closing_balance - balance.pending_days < apps[a].working_days )
          => ( /\ resp' = "insufficient_balance"
               /\ apps' = apps
               /\ balance' = balance )]_vars

C1_Witness ==
    /\ resp = "insufficient_balance"
    /\ apps["a1"].status = "draft"
    /\ apps["a1"].submitted_date = "null"
    /\ balance.present
    /\ balance.closing_balance > 0
    /\ balance.closing_balance - balance.pending_days < apps["a1"].working_days

\* C2: submit takes effect only on a draft; with a balance row whose
\* closing_balance - pending_days is at least working_days it sets the status to
\* submitted and adds exactly working_days to pending_days, leaving every other
\* balance field alone; on any other status it answers with an error and
\* changes nothing.
C2_SubmitSuccess ==
    [][\A a \in AppIds :
          (ApiSubmit(a) /\ apps[a].exists)
          => /\ ( /\ apps[a].status = "draft"
                  /\ balance.present
                  /\ balance.closing_balance - balance.pending_days
                         >= apps[a].working_days )
                => ( /\ resp' = "ok"
                     /\ apps'[a].status = "submitted"
                     /\ balance' = [balance EXCEPT
                                       !.pending_days = @ + apps[a].working_days] )
             /\ apps[a].status # "draft"
                => ( /\ resp' = "submit_not_draft"
                     /\ apps' = apps
                     /\ balance' = balance )]_vars

C2_Witness ==
    /\ resp = "ok"
    /\ apps["a1"].status = "submitted"
    /\ apps["a1"].submitted_date = "set"
    /\ balance.present
    /\ balance.pending_days = apps["a1"].working_days
    /\ balance.closing_balance = balance.pending_days

\* C3 (as claimed): every approve operation, API or HTML, on a submitted or
\* pending_approval application with a balance row sets the status to approved,
\* adds working_days to taken_days, removes them from pending_days and
\* recomputes closing_balance.
C3_ApproveUpdatesBalance ==
    [][\A a \in AppIds :
          ( /\ ApiApprove(a) \/ HtmlApprove(a)
            /\ apps[a].exists
            /\ Decidable(apps[a])
            /\ balance.present )
          => ( /\ apps'[a].status = "approved"
               /\ balance'.taken_days = balance.taken_days + apps[a].working_days
               /\ balance'.pending_days = balance.pending_days - apps[a].working_days
               /\ balance'.closing_balance = ClosingBalance(balance') )]_vars

C5_DecisionsOnlyWhenPending ==
    [][\A a \in AppIds, m \in Methods, r \in ReasonInputs :
          ( /\ \/ ApiApprove(a)
               \/ ApiReject(a, r)
               \/ HtmlApprove(a)
               \/ HtmlReject(a, m, r)
            /\ apps[a].exists
            /\ ~Decidable(apps[a]) )
          => (apps' = apps /\ balance' = balance)]_vars

\* C6 (as claimed): after every operation that recomputes closing_balance
\* (accrue_monthly, leave approval) closing_balance = opening + accrued +
\* carried_forward - taken - encashed - forfeited.
C6_ClosingInvariant ==
    [][( \/ AccrueMonthly
         \/ \E a \in AppIds :
                /\ HtmlApprove(a)
                /\ apps[a].exists
                /\ Decidable(apps[a])
                /\ balance.present )
       => balance'.closing_balance = ExpectedClosing(balance')]_vars

\* C7: two concurrent submits of two draft applications against one balance.
\* Each passes the check on the balance it read, so when both have succeeded
\* pending_days is the sum of the two working_days or only one of them (a lost
\* update), and the two can exceed closing_balance - pending_days together only
\* in the lost-update case.
BothSubmitted ==
    /\ \A r \in Requests :
           /\ req[r].kind = "submit"
           /\ req[r].pc = "done"
           /\ req[r].resp = "ok"
    /\ req["r1"].app # req["r2"].app

C7_SubmitRaceOutcomes ==
    BothSubmitted =>
        LET d1 == apps["a1"].working_days
            d2 == apps["a2"].working_days
        IN  /\ apps["a1"].status = "submitted"
            /\ apps["a2"].status = "submitted"
            /\ d1 <= balance.closing_balance
            /\ d2 <= balance.closing_balance
            /\ balance.pending_days \in {d1, d2, d1 + d2}
            /\ d1 + d2 > balance.closing_balance
               => balance.pending_days \in {d1, d2}

C7_Witness ==
    /\ BothSubmitted
    /\ apps["a1"].working_days + apps["a2"].working_days > balance.closing_balance
    /\ balance.pending_days < apps["a1"].working_days + apps["a2"].working_days

\* C8: two concurrent leave_application_approve requests for one submitted
\* application can both pass the status check; when both have finished, the
\* working_days were moved from pending_days to taken_days once (one update
\* overwrote the other) or twice.
BothApproved ==
    /\ \A r \in Requests :
           /\ req[r].kind = "approve"
           /\ req[r].pc = "done"
           /\ req[r].resp = "html_approved"
    /\ req["r1"].app = req["r2"].app

C8_ApproveRaceOutcomes ==
    BothApproved =>
        LET a == req["r1"].app
            d == apps[a].working_days
        IN  /\ apps[a].status = "approved"
            /\ balance.taken_days \in {d, 2 * d}
            /\ balance.pending_days = d - balance.taken_days
            /\ balance.closing_balance = ClosingBalance(balance)

C8_Witness ==
    /\ BothApproved
    /\ balance.taken_days = 2 * apps[req["r1"].app].working_days
    /\ balance.pending_days < 0

\* C9: a process or approve request never moves a period backwards in
\* open -> processing -> calculated -> approved -> paid -> closed; process
\* succeeds only from open or processing and sets processing; approve succeeds
\* only from calculated and sets approved, approved_by and approved_date; in any
\* other status the request is answered with an error and the period is
\* unchanged.
C9_LifecycleOrder ==
    [][\A p \in PeriodIds, u \in Users :
          /\ (PeriodProcess(p) \/ PeriodApprove(p, u))
             => /\ StatusRank(periods'[p].status) >= StatusRank(periods[p].status)
                /\ \A q \in PeriodIds \ {p} : periods'[q] = periods[q]
          /\ PeriodProcess(p)
             => IF periods[p].status \in {"open", "processing"}
                THEN resp' = "processing_started" /\ periods'[p].status = "processing"
                ELSE resp' = "not_open_for_processing" /\ periods' = periods
          /\ PeriodApprove(p, u)
             => IF periods[p].status = "calculated"
                THEN /\ resp' = "ok"
                     /\ periods'[p].status = "approved"
                     /\ periods'[p].approved_by = u
                     /\ periods'[p].approved_date = "set"
                ELSE resp' = "must_be_calculated" /\ periods' = periods]_vars

C9_Witness ==
    /\ resp = "ok"
    /\ periods["p1"].status = "approved"
    /\ periods["p1"].approved_by = "u2"
    /\ periods["p1"].approved_date = "set"
    /\ periods["p1"].processing_started_at = "set"

\* C10 (as claimed): once a period is locked nothing changes it, and the locked
\* flag never returns to false.
C10_LockedGate ==
    [][\A p \in PeriodIds : periods[p].locked => periods'[p] = periods[p]]_vars

\* C11: whatever accrue_monthly requests ran, one after the other or at the
\* same time, no two hr_employee_leave_balance rows share (employee, leave
\* type, year); and when a request has returned, every pair of an active
\* employee and an active leave type has exactly one row of the current year.
C11_BalanceUniqueness ==
    /\ \A e \in Employees, l \in LeaveTypes, y \in Years :
           Cardinality(RowsOf(accrual.rows, e, l, y)) <= 1
    /\ \A k \in Requests :
           accrual.reqs[k].pc = "done" =>
               \A e \in accrual.active_employees, l \in accrual.active_leave_types :
                   Cardinality(RowsOf(accrual.rows, e, l, "current")) = 1

\* Two requests ran at the same time, both found a pair without a row, one
\* inserted it and the other fell back to reading it; both have returned.
C11_Witness ==
    /\ \A k \in Requests :
           /\ accrual.reqs[k].pc = "done"
           /\ accrual.reqs[k].accrued_count = 4
    /\ Len(accrual.rows) = 4
    /\ \E i \in 1..Len(accrual.rows) : accrual.rows[i].bal.accrued_days = AccrualRate

\* C12: a batch_generate_payslips call for an existing period leaves exactly
\* one payslip per calculation of that period and reports no error; payslip
\* numbers stay pairwise distinct; and a call for a period whose calculations
\* all have their payslip creates none and reports 0 generated.
C12_PayslipsIdempotent ==
    [][\A p \in PayPeriods :
         BatchGeneratePayslips(p) =>
           /\ \A c \in CalculationsOf(p) :
                  Cardinality(PayslipsOf(slips'.payslips, c)) = 1
           /\ slips'.errors = 0
           /\ \A i, j \in 1..Len(slips'.payslips) :
                  slips'.payslips[i].payslip_number = slips'.payslips[j].payslip_number
                      => i = j
           /\ (\A c \in CalculationsOf(p) : PayslipsOf(slips.payslips, c) # {})
                  => /\ slips'.payslips = slips.payslips
                     /\ slips'.generated = 0]_vars

\* A repeated call: period 1 has two calculations, both with their payslip,
\* and the last call, for period 1, generated none.
C12_Witness ==
    /\ slips.status = 200
    /\ slips.period_id = 1
    /\ slips.generated = 0
    /\ Cardinality(CalculationsOf(1)) = 2
    /\ \A c \in CalculationsOf(1) : Cardinality(PayslipsOf(slips.payslips, c)) = 1
    /\ Len(slips.payslips) >= 3

\* C13 (as claimed): in every reachable state the earning lines of a
\* calculation add up to its gross_pay and its deduction lines to its
\* total_deductions.
C13_DetailSums ==
    detail.exists =>
        /\ SumAmounts(LinesOfType(detail.details, "earning")) = detail.gross_pay
        /\ SumAmounts(LinesOfType(detail.details, "deduction")) = detail.total_deductions

\* C14 (as claimed): a payroll period, leave application, attendance record
\* or overtime request row that exists still exists after any handler's step,
\* unless the step deleted its employee.
C14_NoHardDeletion ==
    [][\A t \in Tables, x \in RowIds :
         x \in store.rows[t] =>
             \/ x \in store'.rows[t]
             \/ t \in EmployeeOwned /\ store.employee /\ ~store'.employee]_vars

\* C15: a CustomLoginView step never logs a session in as a user whose
\* is_first_login is true; with the right password for such an (active) user
\* it stores the user's id under first_time_user_id and redirects to the
\* setup, leaving the session unauthenticated; and a step that logs a session
\* in does so for a user whose is_first_login is false.
C15_FirstLoginGate ==
    [][\A s \in Sessions, u \in Users, ok \in BOOLEAN :
         Login(s, u, ok) =>
           /\ auth'.sessions[s].user # auth.sessions[s].user
                  => /\ auth'.sessions[s].user = u
                     /\ ~auth.users[u].is_first_login
           /\ (/\ ~Authenticated(s) /\ ok
               /\ auth.users[u].exists /\ auth.users[u].is_active
               /\ auth.users[u].is_first_login)
                  => /\ auth'.sessions[s].first_time_user_id = u
                     /\ auth'.sessions[s].user = auth.sessions[s].user
                     /\ auth'.status = "login_to_setup"
           /\ auth'.users = auth.users]_vars

\* A first-time user was sent to the setup by one session while another
\* session is logged in as a user who has completed it.
C15_Witness ==
    /\ auth.status = "login_to_setup"
    /\ \E s \in Sessions :
           /\ auth.sessions[s].first_time_user_id # "none"
           /\ auth.users[auth.sessions[s].first_time_user_id].is_first_login
           /\ auth.sessions[s].user = "none"
    /\ \E s \in Sessions :
           /\ auth.sessions[s].user # "none"
           /\ auth.users[auth.sessions[s].user].setups = 1

\* C16 (as claimed): FirstTimeSetupView goes past dispatch exactly when the
\* session holds first_time_user_id of an existing user whose is_first_login
\* is true, and otherwise changes no user; a successful setup sets
\* is_first_login to false, removes first_time_user_id from the session and
\* logs the user in; and no user completes more than one setup per reset,
\* also when two sessions hold the user's first_time_user_id.
C16_SetupOnce ==
    [][\A s \in Sessions :
         /\ SetupDispatch(s) =>
              LET uid == auth.sessions[s].first_time_user_id
              IN  /\ auth'.sessions[s].pc = "form"
                        <=> /\ uid # "none"
                            /\ auth.users[uid].exists
                            /\ auth.users[uid].is_first_login
                  /\ auth'.users = auth.users
         /\ SetupFormValid(s) =>
              LET u == auth.sessions[s].current_user.id
              IN  /\ ~auth'.users[u].is_first_login
                  /\ auth'.sessions[s].first_time_user_id = "none"
                  /\ auth'.sessions[s].user = u
                  /\ auth'.users[u].setups <= 1]_vars

\* C17 (as claimed): whatever saves and mark_as_primary actions ran, in
\* sequence or interleaved, no address type of the employee has two addresses
\* with is_primary = true.
C17_SinglePrimary ==
    \A t \in AddressTypes : Cardinality(PrimariesOf(addr.rows, t)) <= 1

\* C18 (as claimed): generate_report does not refuse the report types payslip,
\* employee_list, payroll_register, attendance and leave, nor any type that
\* available_reports lists; a missing or unknown report_type and a missing
\* required id are answered 400, an id of no row 404.
C18_ReportTypes ==
    report.answer.status # 0 =>
        /\ report.report_type \in
               {"payslip", "employee_list", "payroll_register", "attendance", "leave"}
                   \cup AvailableReportTypes
               => report.answer.error # "Invalid report_type"
        /\ report.report_type \in {"", "bogus"} => report.answer.status = 400
        /\ report.report_type = "payslip" /\ report.calculation_id = ""
               => report.answer.status = 400
        /\ report.report_type = "payroll_register" /\ report.period_id = ""
               => report.answer.status = 400
        /\ report.report_type = "payslip" /\ report.calculation_id = "9"
               => report.answer.status = 404
        /\ report.report_type = "payroll_register" /\ report.period_id = "9"
               => report.answer.status = 404

\* C19: an approve or reject goes on to its save only when the request it
\* read is pending; an approve or reject of a request that is already
\* approved or rejected is answered with the not-pending error and leaves
\* every row (approval_status, approved_by, approval_notes) as it was.
C19_DecisionsFinal ==
    [][\A k \in Requests, kind \in {"approve", "reject"}, o \in RowIds,
          u \in Users, notes \in NotesInputs :
         (OvertimeCheck(k, kind, o, u, notes) /\ overtime.rows[o].exists) =>
           /\ overtime'.rows = overtime.rows
           /\ overtime'.jobs[k].pc = "save"
                  => overtime.rows[o].approval_status = "pending"
           /\ overtime.rows[o].approval_status \in {"approved", "rejected"}
                  => /\ overtime'.status = "not_pending"
                     /\ overtime'.jobs = overtime.jobs]_vars

\* A request was rejected with a note by one user, and a later approve or
\* reject of it has just been refused.
C19_Witness ==
    /\ overtime.status = "not_pending"
    /\ overtime.rows["x1"].approval_status = "rejected"
    /\ overtime.rows["x1"].approval_notes = "n1"
    /\ overtime.rows["x1"].approved_by = "u1"
    /\ \A k \in Requests : overtime.jobs[k].pc = "idle"

\* C20: after every step, of clock_in requests run one after the other or at
\* the same time, no employee and date has two attendance records; a clock_in
\* for an employee whose record of today has a check-in time is answered
\* 'Already clocked in today', one for an unknown employee 404, one for an
\* employee without active work schedule an error, and each of these leaves
\* every record as it was and ends the request.
C20_OneClockIn ==
    [][/\ \A e \in Employees, d \in Dates :
              Cardinality(RecordsOf(attendance'.records, e, d)) <= 1
       /\ \A k \in Requests, e \in Employees \cup {"e9"} :
              ClockInCheck(k, e) =>
                LET clocked == \E i \in RecordsOf(attendance.records, e, "today") :
                                   attendance.records[i].check_in_time # "null"
                    refused == /\ attendance'.records = attendance.records
                               /\ attendance'.jobs[k].pc = "idle"
                IN  /\ e \notin Employees
                        => attendance'.status = "employee_not_found" /\ refused
                    /\ e \in Employees /\ clocked
                        => attendance'.status = "already_clocked_in" /\ refused
                    /\ e \in Employees /\ ~clocked /\ e \notin attendance.scheduled
                        => attendance'.status = "no_active_schedule" /\ refused]_vars

\* Two requests clocked the same employee in at the same time: both found
\* no check-in, r1 created today's record, and r2, refused the insert, is
\* about to write its own time into that one record.
C20_Witness ==
    /\ attendance.jobs["r2"].pc = "update"
    /\ attendance.jobs["r2"].employee = "e1"
    /\ Cardinality(RecordsOf(attendance.records, "e1", "today")) = 1
    /\ attendance.records[attendance.jobs["r2"].pk].check_in_time = "r1"

\* C21 (as claimed): clock_out sets check_out_time only on today's record of
\* an employee who has clocked in; when there is no record for today, when
\* the record has no check-in time or when check_out_time is already set, it
\* answers with one of its error responses and leaves the record as it was.
C21_ClockOutOrdering ==
    [][\A now \in ClockTimes :
          ClockOut("e1", now) =>
            /\ clock'.record.check_out_time # clock.record.check_out_time
                   => clock.record.exists /\ clock.record.check_in_time # <<>>
            /\ \/ ~clock.record.exists
               \/ clock.record.check_in_time = <<>>
               \/ clock.record.check_out_time # <<>>
               => /\ clock'.status \in {"no_record", "already_clocked_out",
                                        "not_clocked_in"}
                  /\ clock'.record = clock.record]_vars

\* C22 (as claimed): a clock_out of a record with a check-in time and no
\* check-out time stores the worked time, check-out minus check-in and taken
\* on the following day when the check-out is earlier, so at least 0 and
\* less than 24 hours; regular_hours is the smaller of worked time and
\* standard day, overtime_hours what exceeds the standard day, and the two
\* add up to the worked time.
C22_HoursSplit ==
    [][\A now \in ClockTimes :
          /\ ClockOut("e1", now)
          /\ clock.record.exists
          /\ clock.record.check_in_time # <<>>
          /\ clock.record.check_out_time = <<>>
          => LET check_in == clock.record.check_in_time[1]
                 worked == (now - check_in) % 1440
                 hours == (10 * worked + 3) \div 6
                 standard == clock.standard
                 after == clock'.record
             IN  /\ worked >= 0 /\ worked < 1440
                 /\ after.check_out_time = <<now>>
                 /\ after.total_hours = hours
                 /\ after.regular_hours = IF hours <= standard THEN hours ELSE standard
                 /\ after.overtime_hours = IF hours <= standard THEN 0 ELSE hours - standard
                 /\ after.regular_hours + after.overtime_hours = hours]_vars

\* C23: while no other accrue_monthly request runs, an invocation loops over
\* exactly the (active employee, active leave type) pairs, each once; for
\* each pair it creates at most the missing current-year row and then adds
\* accrual_rate once to that row's accrued_days, leaving its pending_days
\* and taken_days and every other row as they were; the count it reports is
\* the number of active employees times the number of active leave types.
C23_AccrualEffect ==
    [][\A k \in Requests :
          (\A j \in Requests \ {k} : accrual.reqs[j].pc = "idle") =>
            LET r == accrual.reqs[k]
                after == accrual'.reqs[k]
                active == accrual.active_employees \X accrual.active_leave_types
            IN  /\ AccrueStart(k) =>
                      /\ accrual'.rows = accrual.rows
                      /\ {after.pairs[i] : i \in 1..Len(after.pairs)} = active
                      /\ Len(after.pairs) = Cardinality(active)
                /\ AccrueGet(k) => accrual'.rows = accrual.rows
                /\ AccrueCreate(k) =>
                      \/ accrual'.rows = accrual.rows
                      \/ /\ RowsOf(accrual.rows, AccruePair(k)[1], AccruePair(k)[2], "current") = {}
                         /\ accrual'.rows =
                                Append(accrual.rows,
                                       BalanceRow(AccruePair(k)[1], AccruePair(k)[2], "current"))
                /\ AccrueSave(k) =>
                      LET row == accrual.rows[r.pk]
                          saved == accrual'.rows[r.pk]
                      IN  /\ <<row.employee, row.leave_type>> = AccruePair(k)
                          /\ row.year = "current"
                          /\ Len(accrual'.rows) = Len(accrual.rows)
                          /\ \A i \in 1..Len(accrual.rows) :
                                 i # r.pk => accrual'.rows[i] = accrual.rows[i]
                          /\ <<saved.employee, saved.leave_type, saved.year>>
                                 = <<row.employee, row.leave_type, row.year>>
                          /\ saved.bal.accrued_days = row.bal.accrued_days + AccrualRate
                          /\ saved.bal.pending_days = row.bal.pending_days
                          /\ saved.bal.taken_days = row.bal.taken_days
                          /\ after.accrued_count = r.i
                          /\ after.pc = "done" => after.accrued_count = Cardinality(active)
                          /\ after.pc # "done" => after.i = r.i + 1]_vars

\* The second of two invocations run one after the other has ended: with both
\* employees and both leave types active it reports 4 records, the row of
\* e1/lt1 of this year holds two accruals, and the row of last year, with
\* its pending and its taken day, holds none.
C23_Witness ==
    /\ accrual.reqs["r1"].pc = "done"
    /\ accrual.reqs["r2"].pc = "idle"
    /\ accrual.invocations = 2
    /\ accrual.reqs["r1"].accrued_count = 4
    /\ \E i \in RowsOf(accrual.rows, "e1", "lt1", "current") :
           accrual.rows[i].bal.accrued_days = AccrualRate + AccrualRate
    /\ \E i \in RowsOf(accrual.rows, "e1", "lt1", "last") :
           /\ accrual.rows[i].bal.accrued_days = 0
           /\ accrual.rows[i].bal.pending_days = 1
           /\ accrual.rows[i].bal.taken_days = 1

\* C24 (as claimed): a submit of a draft whose balance row does not exist
\* makes no balance check, sets the status to submitted and creates or
\* changes no balance row; and a reject of an application that was submitted
\* before its balance row existed does not decrease pending_days of the row
\* created since. With one application and only submit, reject and the
\* accrual, a submitted application was submitted before the row existed
\* exactly when pending_days does not hold its working days.
C24_SubmitWithoutBalance ==
    [][\A a \in AppIds :
          /\ ApiSubmit(a) /\ apps[a].exists /\ apps[a].status = "draft" /\ ~balance.present
                => /\ resp' = "ok"
                   /\ apps'[a].status = "submitted"
                   /\ balance' = balance
          /\ \A r \in ReasonInputs :
                /\ ApiReject(a, r)
                /\ apps[a].status = "submitted"
                /\ balance.present
                /\ balance.pending_days < apps[a].working_days
                => balance'.pending_days >= balance.pending_days]_vars

\* C26 (as claimed): in every state reached by submit, approve and reject
\* operations, the pending_days of the balance row is the sum of the
\* working_days of the applications that are submitted or pending_approval.
C26_PendingBookkeeping ==
    LET waiting(a) == IF apps[a].exists /\ Decidable(apps[a])
                      THEN apps[a].working_days
                      ELSE 0
    IN  balance.present => balance.pending_days = waiting("a1") + waiting("a2")

\* C25: user_quick_actions_ajax changes a user only on a POST that names an
\* existing user with action toggle_active or reset_first_login: a request
\* of another method is answered 405, one for an unknown user 404, one with
\* another action 400, and each leaves every user as it was. toggle_active
\* negates is_active, so that a second one restores it, and keeps
\* is_first_login; reset_first_login sets is_first_login, also when it is
\* set already, and keeps is_active. No other user is changed.
C25_QuickActions ==
    [][\A u \in Users, a \in QuickActions, m \in Methods :
          QuickAction(u, a, m) =>
            LET user == auth.users[u]
                after == auth'.users[u]
            IN  /\ \A v \in Users \ {u} : auth'.users[v] = auth.users[v]
                /\ after.exists = user.exists
                /\ m # "POST"
                      => auth'.status = "quick_method_not_allowed" /\ after = user
                /\ m = "POST" /\ ~user.exists
                      => auth'.status = "quick_not_found" /\ after = user
                /\ m = "POST" /\ user.exists /\ a = "other"
                      => auth'.status = "quick_invalid_action" /\ after = user
                /\ m = "POST" /\ user.exists /\ a = "toggle_active"
                      => /\ after.is_active = ~user.is_active
                         /\ after.is_first_login = user.is_first_login
                /\ m = "POST" /\ user.exists /\ a = "reset_first_login"
                      => /\ after.is_first_login
                         /\ after.is_active = user.is_active]_vars

\* An account that had completed its setup was deactivated and is then sent
\* back to the first-time setup: the reset has kept it inactive.
C25_Witness ==
    /\ auth.status = "quick_reset"
    /\ auth.users["u1"].is_first_login
    /\ ~auth.users["u1"].is_active
    /\ auth.users["u2"].exists

\* C27 (as claimed): process and approve requests alone take a period that
\* was created open through calculated to approved. Neither handler moves a
\* period backwards and a refused request changes nothing, so if some
\* sequence of the two requests led there, requests repeated without end
\* would lead there too: period p1 is eventually calculated and eventually
\* approved.
C27_PeriodProgress ==
    /\ <>(periods["p1"].status = "calculated")
    /\ <>(periods["p1"].status = "approved")
====
